---- MODULE Spec2Model ----
(***************************************************************************)
(* sanic-macrobase: the exception-handler registry (exceptions.py) and the *)
(* request dispatch lifecycle of SanicEndpoint (endpoint.py).              *)
(***************************************************************************)
EXTENDS Integers, Sequences, FiniteSets, TLC

VARIABLES
    exception_handlers, \* exceptions.py: the module-level dict _exception_handlers,
                        \* as the sequence of its (key, handler) items in dict order
    regLog,             \* history: every (exception type, func) registration, in call order
    resolved,           \* the last get_exception_handler call: argument, result, and the
                        \* length of regLog when it was made
    pc,                 \* position of the dispatch coroutine (_method)
    request,            \* the request being dispatched and the endpoint serving it
    idx,                \* loop position in _before_method / _after_method
    running,            \* the hook / handler coroutines started and not yet finished
    trace,              \* the calls made by this dispatch, in order
    caught,             \* `e` of `except Exception as e`
    pending,            \* the return value / exception held while `finally` runs
    result,             \* what the caller of _method gets
    handled,            \* the last handle call: its request, its auth argument, what each
                        \* import_body_* returned, the merged body and the body passed on
    made                \* the last make_response_json call: its arguments and its outcome

regVars == <<exception_handlers, regLog, resolved>>
reqVars == <<pc, request, idx, running, trace, caught, pending, result>>
hdlVars == <<handled, made>>
vars == <<exception_handlers, regLog, resolved, pc, request, idx, running, trace,
          caught, pending, result, handled, made>>

None == "None"

(***************************************************************************)
(* Bounds of the model.                                                    *)
(***************************************************************************)
MaxTypes == 2   \* exception types passed to one register_exception_handler call
MaxLog == 3     \* registrations made in the registry specification
MaxBoot == 1    \* registrations the application makes before serving requests
MaxHooks == 2   \* length of the list _get_before_methods / _get_after_methods returns

(***************************************************************************)
(* The exception classes.  SanicException and RoutingErrorException are    *)
(* the library's and the module's; AppError and AppSubError stand for an   *)
(* application's own hierarchy.  Bases[c] is the class's direct base.      *)
(***************************************************************************)
Classes == {"Exception", "SanicException", "RoutingErrorException", "AppError", "AppSubError"}

Bases ==
    [c \in Classes |->
        CASE c = "Exception" -> None
          [] c = "SanicException" -> "Exception"
          [] c = "RoutingErrorException" -> "SanicException"
          [] c = "AppError" -> "Exception"
          [] c = "AppSubError" -> "AppError"]

RECURSIVE Mro(_)
Mro(c) == IF c = None THEN {} ELSE {c} \cup Mro(Bases[c])

\* An exception value handed to get_exception_handler: an instance of cls, or
\* (ExceptionTyping allows it) the class object cls itself.
ExceptionValues == [cls : Classes, is_class : BOOLEAN]

Instance(c) == [cls |-> c, is_class |-> FALSE]

\* isinstance(exception, key), key a registered exception class: a class object
\* is an instance of `type` only, never of an exception class.
isinstance(exception, key) == ~exception.is_class /\ key \in Mro(exception.cls)

issubclass(cls, key) == key \in Mro(cls)

(***************************************************************************)
(* The resolvers (values of the registry).                                 *)
(***************************************************************************)
UserResolvers == {"app_resolver", "data_resolver"}
\* the resolvers the application of the dispatch specification registers
\* before it serves requests; one of them raises instead of returning a tuple
AppResolvers == {"app_resolver", "raising_resolver"}
Resolvers == {"_sanic_exceptions"} \cup UserResolvers \cup AppResolvers

Entry(k, f) == [key |-> k, handler |-> f]

Keys(handlers) == {handlers[i].key : i \in 1..Len(handlers)}

IndexOf(handlers, k) == CHOOSE i \in 1..Len(handlers) : handlers[i].key = k

(***************************************************************************)
(* register_exception_handler(exceptions...)(func):                        *)
(*     for exception in exceptions: _exception_handlers[exception] = func  *)
(* A dict assignment to a key already present replaces the value and keeps *)
(* the key's position; a new key goes to the end.                          *)
(***************************************************************************)
\* Mutant: dict.setdefault, a key already present keeps its first value.
dict_setdefault(handlers, k, f) ==
    IF k \in Keys(handlers) THEN handlers ELSE Append(handlers, Entry(k, f))

\* Mutant: a list of entries, every registration appended.
list_append(handlers, k, f) == Append(handlers, Entry(k, f))

dict_setitem(handlers, k, f) ==
    IF k \in Keys(handlers)
    THEN [handlers EXCEPT ![IndexOf(handlers, k)].handler = f]
    ELSE Append(handlers, Entry(k, f))

RECURSIVE register_exception_handler(_, _, _)
register_exception_handler(handlers, exceptions, func) ==
    IF exceptions = <<>> THEN handlers
    ELSE register_exception_handler(dict_setitem(handlers, Head(exceptions), func),
                                    Tail(exceptions), func)

RECURSIVE LogEntries(_, _)
LogEntries(exceptions, func) ==
    IF exceptions = <<>> THEN <<>>
    ELSE <<Entry(Head(exceptions), func)>> \o LogEntries(Tail(exceptions), func)

(***************************************************************************)
(* get_exception_handler(exception)                                        *)
(***************************************************************************)
\* lines 27-30: exc_cls = exception.__class__; if exc_cls is type: exc_cls = exception
class_of(exception) == IF exception.is_class THEN "type" ELSE exception.cls

exc_cls_of(exception) ==
    IF class_of(exception) = "type" THEN exception.cls ELSE class_of(exception)

\* Mutant: the loop keeps going and the last matching item wins.
RECURSIVE handlers_loop_last(_, _, _, _)
handlers_loop_last(handlers, exception, i, default) ==
    IF i > Len(handlers) THEN default
    ELSE handlers_loop_last(handlers, exception, i + 1,
            IF issubclass(exception.cls, handlers[i].key)
            THEN handlers[i].handler ELSE default)

\* Mutant: `default` is overwritten by every later issubclass match.
RECURSIVE handlers_loop_overwrite(_, _, _, _)
handlers_loop_overwrite(handlers, exception, i, default) ==
    IF i > Len(handlers) THEN default
    ELSE IF isinstance(exception, handlers[i].key) THEN handlers[i].handler
    ELSE handlers_loop_overwrite(handlers, exception, i + 1,
            IF issubclass(exc_cls_of(exception), handlers[i].key)
            THEN handlers[i].handler ELSE default)

\* lines 35-42: the loop over the dict's items, from item i on, with `default`
RECURSIVE handlers_loop(_, _, _, _)
handlers_loop(handlers, exception, i, default) ==
    IF i > Len(handlers) THEN default
    ELSE IF isinstance(exception, handlers[i].key) THEN handlers[i].handler
    ELSE handlers_loop(handlers, exception, i + 1,
            IF default = None /\ issubclass(exc_cls_of(exception), handlers[i].key)
            THEN handlers[i].handler ELSE default)

\* Mutant: no exact-type fast path, the loop alone decides.
get_exception_handler_loop_only(handlers, exception) ==
    handlers_loop(handlers, exception, 1, None)

get_exception_handler(handlers, exception) ==
    IF exc_cls_of(exception) \in Keys(handlers)
    THEN handlers[IndexOf(handlers, exc_cls_of(exception))].handler
    ELSE handlers_loop(handlers, exception, 1, None)

(***************************************************************************)
(* Initial state: exceptions.py has been imported, which registers         *)
(* _sanic_exceptions for SanicException (line 45); no request yet.         *)
(***************************************************************************)
NoException == [cls |-> None, is_class |-> FALSE]
NoRequest == [method |-> None, overridden |-> FALSE, nBefore |-> 0, nAfter |-> 0]
NoResponse == [status |-> 0, code |-> 0, message |-> None, data |-> None, ctype |-> None]
NoOutcome == [kind |-> "none", exc |-> None, resp |-> NoResponse]
NoHandled == [done |-> FALSE]
NoMade == [called |-> FALSE]

Init ==
    /\ exception_handlers = <<Entry("SanicException", "_sanic_exceptions")>>
    /\ regLog = <<Entry("SanicException", "_sanic_exceptions")>>
    /\ resolved = [exception |-> NoException, handler |-> None, at |-> 0]
    /\ pc = "idle"
    /\ request = NoRequest
    /\ idx = 0
    /\ running = {}
    /\ trace = <<>>
    /\ caught = None
    /\ pending = NoOutcome
    /\ result = NoOutcome
    /\ handled = NoHandled
    /\ made = NoMade

(***************************************************************************)
(* Registry operations.                                                    *)
(***************************************************************************)
TypeSeqs == UNION {[1..n -> Classes] : n \in 1..MaxTypes}

RegisterCall(exceptions, func) ==
    /\ exception_handlers' = register_exception_handler(exception_handlers, exceptions, func)
    /\ regLog' = regLog \o LogEntries(exceptions, func)
    /\ UNCHANGED <<resolved, reqVars, hdlVars>>

Register ==
    \E exceptions \in TypeSeqs, func \in UserResolvers :
        /\ Len(regLog) + Len(exceptions) <= MaxLog
        /\ RegisterCall(exceptions, func)

\* Mutant: the lookup stores what it found under the exception's own type.
ResolveCaching ==
    \E exception \in ExceptionValues :
        LET handler == get_exception_handler(exception_handlers, exception)
        IN  /\ resolved' = [exception |-> exception, handler |-> handler,
                            at |-> Len(regLog)]
            /\ exception_handlers' =
                  IF handler = None THEN exception_handlers
                  ELSE dict_setitem(exception_handlers, exception.cls, handler)
            /\ UNCHANGED <<regLog, reqVars, hdlVars>>

Resolve ==
    \E exception \in ExceptionValues :
        /\ resolved' = [exception |-> exception,
                        handler |-> get_exception_handler(exception_handlers, exception),
                        at |-> Len(regLog)]
        /\ UNCHANGED <<exception_handlers, regLog, reqVars, hdlVars>>

NextRegistry == Register \/ Resolve

SpecRegistry == Init /\ [][NextRegistry]_vars

(***************************************************************************)
(* Requests and endpoints.  request.method is the verb as the transport    *)
(* gives it; `overridden` tells whether the endpoint subclass defines its  *)
(* own method_<verb> (as HealthEndpoint does for GET).                     *)
(***************************************************************************)
Methods == {"DELETE", "LINK"}

\* the nine verbs SanicEndpoint has a method for, and one it has none for
AllMethods ==
    {"GET", "HEAD", "POST", "PUT", "DELETE", "CONNECT", "OPTIONS", "TRACE", "PATCH", "LINK"}

\* request.method.lower()
lower(method) ==
    CASE method = "GET" -> "get"
      [] method = "HEAD" -> "head"
      [] method = "POST" -> "post"
      [] method = "PUT" -> "put"
      [] method = "DELETE" -> "delete"
      [] method = "CONNECT" -> "connect"
      [] method = "OPTIONS" -> "options"
      [] method = "TRACE" -> "trace"
      [] method = "PATCH" -> "patch"
      [] method = "LINK" -> "link"

\* the method_<verb> attributes SanicEndpoint itself defines
DefinedVerbs ==
    {"get", "head", "post", "put", "delete", "connect", "options", "trace", "patch"}

\* Mutant: only the handlers an endpoint subclass registers count.
hasattr_overridden_only(req) == req.overridden

\* hasattr(self, f'method_{method}')
hasattr_method(req) == lower(req.method) \in DefinedVerbs \/ req.overridden

Requests ==
    [method : Methods, overridden : BOOLEAN, nBefore : 0..MaxHooks, nAfter : 0..MaxHooks]

VerbRequests ==
    [method : AllMethods, overridden : BOOLEAN, nBefore : 0..MaxHooks, nAfter : 0..MaxHooks]

(***************************************************************************)
(* Responses and outcomes.  An outcome is what a coroutine ends with: a    *)
(* response returned or an exception raised.                               *)
(***************************************************************************)
NoCode == 0     \* an int argument left None

Response(r) == [kind |-> "response", exc |-> None, resp |-> r]
Raise(c) == [kind |-> "raise", exc |-> c, resp |-> NoResponse]

\* HTTPStatus(code).phrase; None stands for the ValueError of an unknown code
HTTPStatusPhrase(code) ==
    CASE code = 200 -> "OK"
      [] code = 400 -> "Bad Request"
      [] code = 405 -> "Method Not Allowed"
      [] code = 409 -> "Conflict"
      [] code = 500 -> "Internal Server Error"
      [] OTHER -> None

\* Mutant: the synthesized body always carries the status code, whatever error_code.
make_response_json_no_error_code(code, message, data, error_code) ==
    IF data # None
    THEN Response([status |-> code, code |-> NoCode, message |-> None,
                   data |-> data, ctype |-> "json"])
    ELSE IF message = None /\ HTTPStatusPhrase(code) = None
    THEN Raise("ValueError")
    ELSE Response([status |-> code, code |-> code,
                   message |-> IF message = None THEN HTTPStatusPhrase(code) ELSE message,
                   data |-> None, ctype |-> "json"])

make_response_json(code, message, data, error_code) ==
    IF data # None
    THEN Response([status |-> code, code |-> NoCode, message |-> None,
                   data |-> data, ctype |-> "json"])
    ELSE IF message = None /\ HTTPStatusPhrase(code) = None
    THEN Raise("ValueError")
    ELSE Response([status |-> code,
                   code |-> IF error_code = NoCode THEN code ELSE error_code,
                   message |-> IF message = None THEN HTTPStatusPhrase(code) ELSE message,
                   data |-> None, ctype |-> "json"])

make_response_raw(raw_str) ==
    Response([status |-> 200, code |-> NoCode, message |-> None, data |-> raw_str,
              ctype |-> "raw"])

\* f'{request.method} Not Impl'
NotImpl(method) == method \o " Not Impl"

\* Mutant: the default handlers answer 501 Not Implemented.
default_method_501(method) == make_response_json(501, NotImpl(method), None, NoCode)

\* method_get .. method_patch of SanicEndpoint
default_method(method) == make_response_json(500, NotImpl(method), None, NoCode)

\* what a verb handler of an endpoint subclass may return
OverriddenResponses ==
    {make_response_raw("Health"), make_response_json(200, None, "payload", NoCode)}

\* str(exception)
Str(c) ==
    CASE c = "Exception" -> "error"
      [] c = "SanicException" -> "sanic error"
      [] c = "RoutingErrorException" -> "routing error"
      [] c = "AppError" -> "app error"
      [] c = "AppSubError" -> "app sub error"

\* exc.status_code of a SanicException
status_code(c) == 500

\* the exceptions an after-hook raises: they are never resolved, so two
\* classes stand for all
AfterHookExceptions == {"Exception", "SanicException"}

\* handler(exception) raises instead of returning
ResolverRaises(func) == func = "raising_resolver"

\* handler(exception): the tuple the resolver returns
ResolverResult(func, c) ==
    CASE func = "_sanic_exceptions" -> <<status_code(c), Str(c), None>>
      [] func = "app_resolver" -> <<400, 4001, "app_resolver message", None>>
      [] func = "data_resolver" -> <<409, NoCode, None, "error payload">>

\* Mutant: the fallback response leaves the message to the status phrase.
handle_method_exceptions_phrase(handlers, c) ==
    LET handler == get_exception_handler(handlers, Instance(c))
    IN  IF handler # None
        THEN IF ResolverRaises(handler) THEN Raise("RuntimeError")
             ELSE LET t == ResolverResult(handler, c)
                  IN  IF Len(t) # 4 THEN Raise("ValueError")
                      ELSE make_response_json(t[1], t[3], t[4], t[2])
        ELSE make_response_json(500, None, None, NoCode)

\* _handle_method_exceptions(exception): `code, error_code, message, data =
\* handler(exception)` raises ValueError unless the tuple has four items
handle_method_exceptions(handlers, c) ==
    LET handler == get_exception_handler(handlers, Instance(c))
    IN  IF handler # None
        THEN IF ResolverRaises(handler) THEN Raise("RuntimeError")
             ELSE LET t == ResolverResult(handler, c)
                  IN  IF Len(t) # 4 THEN Raise("ValueError")
                      ELSE make_response_json(t[1], t[3], t[4], t[2])
        ELSE make_response_json(500, Str(c), None, NoCode)

(***************************************************************************)
(* The dispatch coroutine _method.  Each awaited hook or handler is a call *)
(* event and a return or raise event; trace records them.                  *)
(***************************************************************************)
Event(ev, op, i, c) == [ev |-> ev, op |-> op, i |-> i, exc |-> c]
Callable(op, i) == [op |-> op, i |-> i]

\* the registrations an application makes before it serves requests
Bootstrap ==
    /\ pc = "idle"
    /\ Len(regLog) <= MaxBoot
    /\ \E c \in Classes, func \in AppResolvers : RegisterCall(<<c>>, func)

\* lines 187-192 and 201-202
Dispatch(req) ==
    /\ pc = "idle"
    /\ request' = req
    /\ IF hasattr_method(req)
       THEN /\ pc' = "before"
            /\ idx' = 1
            /\ result' = result
       ELSE /\ pc' = "done"
            /\ idx' = idx
            /\ result' = make_response_json(405, "Method Not Allowed", None, NoCode)
    /\ UNCHANGED <<regVars, hdlVars, running, trace, caught, pending>>

Start == \E req \in Requests : Dispatch(req)

\* a request with any of the verbs
StartVerb == \E req \in VerbRequests : Dispatch(req)

\* Mutant: the hook is scheduled, not awaited.
BeforeHookCallNoAwait ==
    /\ pc = "before"
    /\ idx <= request.nBefore
    /\ running' = running \cup {Callable("before", idx)}
    /\ trace' = Append(trace, Event("call", "before", idx, None))
    /\ idx' = idx + 1
    /\ UNCHANGED <<regVars, hdlVars, pc, request, caught, pending, result>>

\* _before_method: `await func(request, body)`, the call
BeforeHookCall ==
    /\ pc = "before"
    /\ idx <= request.nBefore
    /\ running = {}
    /\ running' = {Callable("before", idx)}
    /\ trace' = Append(trace, Event("call", "before", idx, None))
    /\ UNCHANGED <<regVars, hdlVars, pc, request, idx, caught, pending, result>>

BeforeHookReturn ==
    /\ pc = "before"
    /\ running = {Callable("before", idx)}
    /\ running' = {}
    /\ trace' = Append(trace, Event("return", "before", idx, None))
    /\ idx' = idx + 1
    /\ UNCHANGED <<regVars, hdlVars, pc, request, caught, pending, result>>

\* Mutant: the hook's exception is swallowed and the loop goes on.
BeforeHookRaiseSwallowed ==
    /\ pc = "before"
    /\ running = {Callable("before", idx)}
    /\ \E c \in Classes :
        trace' = Append(trace, Event("raise", "before", idx, c))
    /\ running' = {}
    /\ idx' = idx + 1
    /\ UNCHANGED <<regVars, hdlVars, pc, request, caught, pending, result>>

\* a before-hook raises: out of the loop and of the try body, to `except`
BeforeHookRaise ==
    /\ pc = "before"
    /\ running = {Callable("before", idx)}
    /\ \E c \in Classes :
        /\ trace' = Append(trace, Event("raise", "before", idx, c))
        /\ caught' = c
    /\ running' = {}
    /\ pc' = "except"
    /\ UNCHANGED <<regVars, hdlVars, request, idx, pending, result>>

\* line 196: _before_method has returned, `await func(request, body)`
HandlerCall ==
    /\ pc = "before"
    /\ idx > request.nBefore
    /\ running = {}
    /\ running' = {Callable("handler", 0)}
    /\ trace' = Append(trace, Event("call", "handler", 0, None))
    /\ pc' = "handler"
    /\ UNCHANGED <<regVars, hdlVars, request, idx, caught, pending, result>>

\* the handler returns: `return` holds the response while `finally` runs
HandlerReturn ==
    /\ pc = "handler"
    /\ running = {Callable("handler", 0)}
    /\ \E r \in (IF request.overridden THEN OverriddenResponses
                 ELSE {default_method(request.method)}) :
        pending' = r
    /\ running' = {}
    /\ trace' = Append(trace, Event("return", "handler", 0, None))
    /\ pc' = "after"
    /\ idx' = 1
    /\ UNCHANGED <<regVars, hdlVars, request, caught, result>>

\* a handler of an endpoint subclass raises
HandlerRaise ==
    /\ pc = "handler"
    /\ running = {Callable("handler", 0)}
    /\ request.overridden
    /\ \E c \in Classes :
        /\ trace' = Append(trace, Event("raise", "handler", 0, c))
        /\ caught' = c
    /\ running' = {}
    /\ pc' = "except"
    /\ UNCHANGED <<regVars, hdlVars, request, idx, pending, result>>

\* Mutant: the error response is returned without `finally`.
HandleExceptionNoFinally ==
    /\ pc = "except"
    /\ result' = handle_method_exceptions(exception_handlers, caught)
    /\ trace' = Append(trace, Event("handle", "resolve", 0, caught))
    /\ pc' = "done"
    /\ UNCHANGED <<regVars, hdlVars, request, running, caught, pending, idx>>

\* Mutant: an exception raised while the error response is built leaves
\* _method at once, `finally` runs only for a response.
HandleExceptionFailureSkipsFinally ==
    /\ pc = "except"
    /\ trace' = Append(trace, Event("handle", "resolve", 0, caught))
    /\ IF handle_method_exceptions(exception_handlers, caught).kind = "raise"
       THEN /\ result' = handle_method_exceptions(exception_handlers, caught)
            /\ pc' = "done"
            /\ UNCHANGED <<pending, idx>>
       ELSE /\ pending' = handle_method_exceptions(exception_handlers, caught)
            /\ pc' = "after"
            /\ idx' = 1
            /\ result' = result
    /\ UNCHANGED <<regVars, hdlVars, request, running, caught>>

\* lines 197-198: `return await self._handle_method_exceptions(e)`; its
\* response, or the exception it raises, is held while `finally` runs
HandleException ==
    /\ pc = "except"
    /\ pending' = handle_method_exceptions(exception_handlers, caught)
    /\ trace' = Append(trace, Event("handle", "resolve", 0, caught))
    /\ pc' = "after"
    /\ idx' = 1
    /\ UNCHANGED <<regVars, hdlVars, request, running, caught, result>>

\* _after_method: `await func(request)`, the call
AfterHookCall ==
    /\ pc = "after"
    /\ idx <= request.nAfter
    /\ running = {}
    /\ running' = {Callable("after", idx)}
    /\ trace' = Append(trace, Event("call", "after", idx, None))
    /\ UNCHANGED <<regVars, hdlVars, pc, request, idx, caught, pending, result>>

AfterHookReturn ==
    /\ pc = "after"
    /\ running = {Callable("after", idx)}
    /\ running' = {}
    /\ trace' = Append(trace, Event("return", "after", idx, None))
    /\ idx' = idx + 1
    /\ UNCHANGED <<regVars, hdlVars, pc, request, caught, pending, result>>

\* Mutant: the after-hooks run inside the try body, `except` catches them.
AfterHookRaiseCaught ==
    /\ pc = "after"
    /\ running = {Callable("after", idx)}
    /\ \E c \in AfterHookExceptions :
        /\ trace' = Append(trace, Event("raise", "after", idx, c))
        /\ caught' = c
    /\ running' = {}
    /\ request' = [request EXCEPT !.nAfter = 0]
    /\ pc' = "except"
    /\ UNCHANGED <<regVars, hdlVars, idx, pending, result>>

\* an after-hook raises inside `finally`: the exception replaces whatever
\* was held and leaves _method
AfterHookRaise ==
    /\ pc = "after"
    /\ running = {Callable("after", idx)}
    /\ \E c \in AfterHookExceptions :
        /\ trace' = Append(trace, Event("raise", "after", idx, c))
        /\ result' = Raise(c)
    /\ running' = {}
    /\ pc' = "done"
    /\ UNCHANGED <<regVars, hdlVars, request, idx, caught, pending>>

\* `finally` is over: the held response is returned, the held exception raised
Return ==
    /\ pc = "after"
    /\ idx > request.nAfter
    /\ running = {}
    /\ result' = pending
    /\ pc' = "done"
    /\ UNCHANGED <<regVars, hdlVars, request, idx, running, trace, caught, pending>>

Next ==
    \/ Bootstrap
    \/ Start
    \/ BeforeHookCall
    \/ BeforeHookReturn
    \/ BeforeHookRaise
    \/ HandlerCall
    \/ HandlerReturn
    \/ HandlerRaise
    \/ HandleException
    \/ AfterHookCall
    \/ AfterHookReturn
    \/ AfterHookRaise
    \/ Return

Spec == Init /\ [][Next]_vars

\* dispatches of every verb, with the registry as the import leaves it
NextVerbs ==
    \/ StartVerb
    \/ BeforeHookCall
    \/ BeforeHookReturn
    \/ BeforeHookRaise
    \/ HandlerCall
    \/ HandlerReturn
    \/ HandlerRaise
    \/ HandleException
    \/ AfterHookCall
    \/ AfterHookReturn
    \/ AfterHookRaise
    \/ Return

SpecVerbs == Init /\ [][NextVerbs]_vars

(***************************************************************************)
(* Body aggregation (handle and the import_body functions) and the JSON    *)
(* response factory.  A Python dict is a function on its keys; a value is  *)
(* a record of its kind and its items, so that a one-element list and its  *)
(* element, and the values of different sources, stay distinct.            *)
(***************************************************************************)
MaxList == 2    \* length of the longest list a query argument / form field holds

Value(kind, items) == [kind |-> kind, items |-> items]

EmptyDict == <<>>

Dict1(key, value) == [k \in {key} |-> value]

Dict2(key1, value1, key2, value2) ==
    [k \in {key1, key2} |-> IF k = key1 THEN value1 ELSE value2]

len(d) == Cardinality(DOMAIN d)

\* an attribute of the request that may be None
Some(d) == [some |-> TRUE, dict |-> d]
Nil == [some |-> FALSE, dict |-> EmptyDict]

\* Mutant: a merge that keeps the value a key already has.
dict_update_keep(d, other) ==
    [k \in DOMAIN d \cup DOMAIN other |-> IF k \in DOMAIN d THEN d[k] ELSE other[k]]

\* dict.update(other)
dict_update(d, other) ==
    [k \in DOMAIN d \cup DOMAIN other |-> IF k \in DOMAIN other THEN other[k] ELSE d[k]]

\* Mutant: the key keeps the value it already has.
body_setdefault(d, key, value) ==
    [k \in DOMAIN d \cup {key} |-> IF k \in DOMAIN d THEN d[k] ELSE value]

\* d[key] = value
body_setitem(d, key, value) ==
    [k \in DOMAIN d \cup {key} |-> IF k = key THEN value ELSE d[k]]

\* `sub in request.content_type`, for the content types of the model
ContentTypes ==
    {"application/json; charset=utf-8", "multipart/form-data; boundary=b", "text/plain"}

Contains(content_type, sub) ==
    \/ content_type = "application/json; charset=utf-8" /\ sub = "application/json"
    \/ content_type = "multipart/form-data; boundary=b" /\ sub = "multipart/form-data"

\* header[:2].lower(), for the header names of the model
Prefix2Lower(header) ==
    CASE header = "x-id" -> "x-"
      [] header = "X-Trace" -> "x-"
      [] header = "Content-Type" -> "co"

\* Mutant: any non-empty list is replaced by its first element.
params_from_dictparams_first(params) ==
    [key \in DOMAIN params |->
        IF params[key].kind = "list" /\ Len(params[key].items) >= 1
        THEN Value("str", <<params[key].items[1]>>)
        ELSE params[key]]

params_from_dictparams(params) ==
    [key \in DOMAIN params |->
        IF params[key].kind = "list" /\ Len(params[key].items) = 1
        THEN Value("str", <<params[key].items[1]>>)
        ELSE params[key]]

import_body_match_info(req) ==
    IF req.match_info.some THEN req.match_info.dict ELSE EmptyDict

import_body_json(req) ==
    IF Contains(req.content_type, "application/json") /\ req.json.some
    THEN req.json.dict
    ELSE EmptyDict

import_body_args(req) ==
    IF req.method # "POST" /\ req.args.some /\ len(req.args.dict) > 0
    THEN params_from_dictparams(req.args.dict)
    ELSE EmptyDict

\* a list of File objects becomes the list of their {type, body, name} dicts; any
\* other value is replaced by request.files itself
import_body_files(req) ==
    IF req.files.some /\ len(req.files.dict) > 0
    THEN [key \in DOMAIN req.files.dict |->
            IF req.files.dict[key].kind = "list"
            THEN Value("filedicts", req.files.dict[key].items)
            ELSE Value("request.files", <<>>)]
    ELSE EmptyDict

import_body_form(req) ==
    IF req.form.some /\ len(req.form.dict) > 0
    THEN IF Contains(req.content_type, "multipart/form-data")
         THEN params_from_dictparams(req.form.dict)
         ELSE req.form.dict
    ELSE EmptyDict

import_body_headers(req) ==
    [header \in {h \in DOMAIN req.headers : Prefix2Lower(h) = "x-"} |-> req.headers[header]]

\* what each import_body_* returns for the request, in the order handle calls them
Imports(req) ==
    <<import_body_match_info(req), import_body_json(req), import_body_args(req),
      import_body_files(req), import_body_form(req), import_body_headers(req)>>

RECURSIVE update_all(_, _, _)
update_all(body, imports, n) ==
    IF n > Len(imports)
    THEN body
    ELSE update_all(dict_update(body, imports[n]), imports, n + 1)

\* handle, lines 147-155: body = {} and the six body.update calls
aggregate(req) == update_all(EmptyDict, Imports(req), 1)

\* handle, line 157: body['auth'] = auth
handle_body(req, auth) == body_setitem(aggregate(req), "auth", auth)

(***************************************************************************)
(* The requests handle is applied to.                                      *)
(***************************************************************************)
\* the list of the first n items a source sends for a field
ListOf(source, n) ==
    Value("list", [i \in 1..n |-> source \o CASE i = 1 -> "1" [] i = 2 -> "2"
                                              [] i = 3 -> "3" [] OTHER -> "n"])

\* the values of a query argument or form field: lists of every length up to
\* MaxList, and a value that is not a list
ParamValues(source) ==
    {ListOf(source, n) : n \in 0..MaxList} \cup {Value("str", <<source>>)}

MatchInfos ==
    {Nil, Some(Dict1("id", Value("str", <<"path">>))),
     Some(Dict2("id", Value("str", <<"path">>), "auth", Value("str", <<"path">>)))}

Jsons ==
    {Nil, Some(Dict1("id", Value("str", <<"json">>))),
     Some(Dict2("id", Value("str", <<"json">>), "auth", Value("str", <<"json">>)))}

Args ==
    {Nil, Some(EmptyDict)}
        \cup {Some(Dict1(k, v)) : k \in {"id", "auth"}, v \in ParamValues("arg")}

Files ==
    {Nil, Some(EmptyDict), Some(Dict1("id", Value("list", <<"file1">>))),
     Some(Dict1("auth", Value("File", <<"file1">>)))}

Forms ==
    {Nil, Some(EmptyDict)}
        \cup {Some(Dict1(k, v)) : k \in {"auth", "x-id"}, v \in ParamValues("form")}

Headers ==
    {EmptyDict, Dict1("X-Trace", Value("str", <<"header">>)),
     Dict2("x-id", Value("str", <<"header">>), "Content-Type", Value("str", <<"header">>))}

Auths == {Value("None", <<>>), Value("auth", <<"user">>)}

HttpRequests ==
    [method : {"GET", "POST"}, content_type : ContentTypes, match_info : MatchInfos,
     json : Jsons, args : Args, files : Files, form : Forms, headers : Headers]

\* handle(request, auth): the aggregation; the body goes to _method, which hands it
\* to the hooks and the handler and neither reads nor changes it
Handle ==
    /\ ~handled.done
    /\ \E req \in HttpRequests, auth \in Auths :
          handled' = [done |-> TRUE, request |-> req, auth |-> auth,
                      imports |-> Imports(req), aggregated |-> aggregate(req),
                      body |-> handle_body(req, auth)]
    /\ UNCHANGED <<regVars, reqVars, made>>

NextHandle == Handle

SpecHandle == Init /\ [][NextHandle]_vars

(***************************************************************************)
(* The calls of make_response_json.                                        *)
(***************************************************************************)
ResponseCodes == {200, 400, 405, 409, 500, 599}
ResponseMessages == {None, "msg1", "msg2"}
ResponseDatas == {None, "data1", "data2"}
ErrorCodes == {NoCode, 1, 4001}

MakeResponseJson ==
    /\ \E code \in ResponseCodes, message \in ResponseMessages,
          data \in ResponseDatas, error_code \in ErrorCodes :
          made' = [called |-> TRUE, code |-> code, message |-> message, data |-> data,
                   error_code |-> error_code,
                   outcome |-> make_response_json(code, message, data, error_code)]
    /\ UNCHANGED <<regVars, reqVars, handled>>

NextResponse == MakeResponseJson

SpecResponse == Init /\ [][NextResponse]_vars

(***************************************************************************)
(* Dispatch properties.                                                    *)
(***************************************************************************)
Done == pc = "done"

HasHandler == hasattr_method(request)

\* positions of the trace's events of a kind
Events(ev, op) == {n \in 1..Len(trace) : trace[n].ev = ev /\ trace[n].op = op}

EventsOf(ev, op, i) == {n \in Events(ev, op) : trace[n].i = i}

\* the events of the try body and of the except clause
ProtectedEvents == {n \in 1..Len(trace) : trace[n].op \in {"before", "handler", "resolve"}}

AfterHookRaised == Events("raise", "after") # {}

BeforeOrHandlerRaised == Events("raise", "before") \cup Events("raise", "handler") # {}

\* the after-hooks that were to be called: all of them, or those up to the one
\* that raised
AfterHooksDue ==
    IF AfterHookRaised
    THEN 1..(CHOOSE k \in 1..request.nAfter : EventsOf("raise", "after", k) # {})
    ELSE 1..request.nAfter

\* C1: in a dispatch whose verb has a handler the after-hooks are run exactly
\* once, after the before-hooks / handler phase (and exception handling) has
\* ended and before dispatch returns, whether that phase ended normally, with a
\* before-hook raising or with the handler raising.
C1_AfterHooksRunExactlyOnce ==
    /\ \A k \in 1..MaxHooks + 1 : Cardinality(EventsOf("call", "after", k)) <= 1
    /\ \A n \in Events("call", "after") : \A m \in ProtectedEvents : m < n
    /\ pc \in {"before", "handler", "except"} => Events("call", "after") = {}
    /\ (Done /\ HasHandler) =>
          /\ \A k \in AfterHooksDue : Cardinality(EventsOf("call", "after", k)) = 1
          /\ \A j, k \in AfterHooksDue : \A n \in EventsOf("call", "after", j) :
                \A m \in EventsOf("call", "after", k) : j < k => n < m
          /\ Events("return", "handler") # {} \/ BeforeOrHandlerRaised

\* the handler raised, and both after-hooks ran before dispatch returned
C1_Witness ==
    /\ Done
    /\ Events("raise", "handler") # {}
    /\ request.nAfter = 2
    /\ Cardinality(Events("return", "after")) = 2
    /\ result.kind = "response"

\* C2: every exception a before-hook or the verb handler raises is converted
\* to a response: if no after-hook raises, dispatch returns a response to its
\* caller and no exception escapes.
C2_ExceptionsBecomeResponses ==
    (Done /\ HasHandler /\ BeforeOrHandlerRaised /\ ~AfterHookRaised)
        => result.kind = "response"

\* C3 as stated: when the endpoint registers no handler for the verb, DELETE
\* included, dispatch returns 405 and no hook runs.
C3_NoRegisteredHandlerIs405 ==
    (Done /\ (~HasHandler \/ (request.method = "DELETE" /\ ~request.overridden)))
        => /\ result.kind = "response"
           /\ result.resp.status = 405
           /\ trace = <<>>

\* C3 amended: when the endpoint has no method_<verb> attribute for the
\* lower-cased verb, dispatch returns 405 'Method Not Allowed', runs no
\* before-hook and no after-hook and does not consult the exception registry;
\* DELETE, like the other eight verbs SanicEndpoint defines, always has a
\* handler: without an override the answer is the default 500 'DELETE Not
\* Impl' (or the exception of a raising hook, resolved), the hooks run.
C3_MissingAttributeIs405 ==
    /\ (Done /\ ~HasHandler)
          => /\ result = make_response_json(405, "Method Not Allowed", None, NoCode)
             /\ result.resp.status = 405
             /\ trace = <<>>
    /\ (Done /\ request.method = "DELETE")
          => /\ HasHandler
             /\ trace # <<>>
             /\ (~request.overridden /\ ~BeforeOrHandlerRaised /\ ~AfterHookRaised)
                   => /\ result = default_method("DELETE")
                      /\ result.resp.status = 500
                      /\ Cardinality(Events("return", "before")) = request.nBefore
                      /\ Cardinality(Events("return", "after")) = request.nAfter

\* a verb with no handler on an endpoint that has hooks
C3_Witness ==
    /\ Done
    /\ ~HasHandler
    /\ request.method = "LINK"
    /\ request.nBefore > 0 /\ request.nAfter > 0
    /\ result.resp.status = 405

\* C4: if the k-th before-hook raises, no before-hook after the k-th is called
\* and the verb handler is never invoked; control goes to exception handling
\* and then to the after-hooks.
C4_BeforeHookRaiseSkipsRest ==
    \A k \in 1..MaxHooks + 1 : \A n \in EventsOf("raise", "before", k) :
        /\ \A m \in Events("call", "before") : trace[m].i <= k /\ m < n
        /\ Events("call", "handler") = {}
        /\ pc \in {"except", "after", "done"}
        /\ n < Len(trace) => trace[n + 1] = Event("handle", "resolve", 0, trace[n].exc)
        /\ pc \in {"after", "done"} => n < Len(trace)
        /\ \A m \in Events("call", "after") : n + 1 < m
        /\ Done => \A j \in AfterHooksDue : EventsOf("call", "after", j) # {}

\* the first of two before-hooks raised; dispatch is over, an after-hook ran
C4_Witness ==
    /\ Done
    /\ request.nBefore = 2
    /\ EventsOf("raise", "before", 1) # {}
    /\ request.nAfter >= 1
    /\ Events("return", "after") # {}

\* the hook or handler call that rightly comes next after event n
NextCallAllowed(n, m) ==
    \/ /\ trace[m].op = "before"
       /\ trace[n] = Event("return", "before", trace[m].i - 1, None)
    \/ /\ trace[m].op = "handler"
       /\ trace[n] = Event("return", "before", request.nBefore, None)
    \/ /\ trace[m].op = "after" /\ trace[m].i = 1
       /\ \/ trace[n] = Event("return", "handler", 0, None)
          \/ trace[n].ev = "handle"
    \/ /\ trace[m].op = "after" /\ trace[m].i > 1
       /\ trace[n] = Event("return", "after", trace[m].i - 1, None)

\* C5: within one dispatch the steps are sequential: before-hooks one at a
\* time in registration order, the handler only after every before-hook has
\* returned, after-hooks one at a time in registration order only after the
\* handler or exception handling has finished; never are two hooks, or a hook
\* and the handler, active at the same time.
C5_StrictlySequential ==
    /\ Cardinality(running) <= 1
    /\ \A n \in 1..Len(trace) :
          trace[n].ev = "call" =>
              /\ n = Len(trace) => running = {Callable(trace[n].op, trace[n].i)}
              /\ n < Len(trace) =>
                    /\ trace[n + 1].ev \in {"return", "raise"}
                    /\ trace[n + 1].op = trace[n].op
                    /\ trace[n + 1].i = trace[n].i
    /\ \A m \in 1..Len(trace) :
          trace[m].ev = "call" =>
              IF m = 1
              THEN trace[m].op = (IF request.nBefore > 0 THEN "before" ELSE "handler")
                   /\ trace[m].i = (IF request.nBefore > 0 THEN 1 ELSE 0)
              ELSE NextCallAllowed(m - 1, m)

\* a dispatch with two before-hooks and two after-hooks ran to its end
C5_Witness ==
    /\ Done
    /\ Cardinality(Events("return", "before")) = 2
    /\ Events("return", "handler") # {}
    /\ Cardinality(Events("return", "after")) = 2

\* C6: if an after-hook raises, that exception leaves dispatch: it is not
\* passed to the exception registry, no response is returned, and a response
\* already produced by the handler or by exception handling is discarded.
C6_AfterHookExceptionPropagates ==
    \A n \in Events("raise", "after") :
        /\ n = Len(trace)
        /\ Done
        /\ result = Raise(trace[n].exc)
        /\ result.kind # "response"
        /\ \A m \in Events("handle", "resolve") : m < n /\ trace[m - 1].op # "after"

\* an after-hook raised while a response was held
C6_Witness ==
    /\ Done
    /\ AfterHookRaised
    /\ pending.kind = "response"
    /\ Events("handle", "resolve") # {}
    /\ result.kind = "raise"

(***************************************************************************)
(* Registry properties.  RegLogAt is the registration history as it was    *)
(* when the last get_exception_handler call was made.                      *)
(***************************************************************************)
RegLogAt == SubSeq(regLog, 1, resolved.at)

Resolved == resolved.at > 0

ResolvedCls == resolved.exception.cls

\* the resolver most recently registered for exactly type k
LastFor(log, k) ==
    LET i == CHOOSE n \in 1..Len(log) :
                 /\ log[n].key = k
                 /\ \A m \in (n + 1)..Len(log) : log[m].key # k
    IN  log[i].handler

\* positions of the registrations of an ancestor of (or of) class c
AncestorEntries(log, c) == {n \in 1..Len(log) : log[n].key \in Mro(c)}

\* the earliest of them, 0 when there is none
FirstAncestorEntry(log, c) ==
    IF AncestorEntries(log, c) = {} THEN 0
    ELSE CHOOSE n \in AncestorEntries(log, c) : \A m \in AncestorEntries(log, c) : n <= m

\* the types of a history, each once, in the order of their first registration
RECURSIVE FirstKeys(_)
FirstKeys(log) ==
    IF log = <<>> THEN <<>>
    ELSE LET front == FirstKeys(SubSeq(log, 1, Len(log) - 1))
             k == log[Len(log)].key
         IN  IF \E n \in 1..Len(front) : front[n] = k THEN front ELSE Append(front, k)

\* The scenario of C7: Base registered, then Specific, a proper subtype of Base,
\* and they are the only registrations of a type Specific inherits from.
BaseThenSpecific(log, i, j) ==
    /\ i < j
    /\ log[i].key # log[j].key
    /\ log[i].key \in Mro(log[j].key)
    /\ AncestorEntries(log, log[j].key) = {i, j}

\* C7 as stated: after registering (Base, resolverBase) and then (Specific,
\* resolverSpecific), resolving an exception of type Specific yields resolverBase.
C7_FirstRegisteredAncestorWins ==
    Resolved =>
        \A i, j \in 1..Len(RegLogAt) :
            (BaseThenSpecific(RegLogAt, i, j) /\ ResolvedCls = RegLogAt[j].key)
                => resolved.handler = RegLogAt[i].handler

\* C7 amended: after registering (Base, resolverBase) and then (Specific,
\* resolverSpecific), resolving an exception of type Specific yields
\* resolverSpecific, the resolver registered for exactly that type.
C7_ExactTypeBeatsEarlierAncestor ==
    Resolved =>
        \A i, j \in 1..Len(RegLogAt) :
            (BaseThenSpecific(RegLogAt, i, j) /\ ResolvedCls = RegLogAt[j].key)
                => resolved.handler = RegLogAt[j].handler

C7_Witness ==
    /\ Resolved
    /\ ~resolved.exception.is_class
    /\ \E i, j \in 1..Len(RegLogAt) :
           /\ BaseThenSpecific(RegLogAt, i, j)
           /\ ResolvedCls = RegLogAt[j].key
           /\ RegLogAt[i].handler # RegLogAt[j].handler
           /\ resolved.handler = RegLogAt[j].handler

\* C8: resolving an exception whose exact type is registered returns the
\* resolver most recently registered for exactly that type, whatever ancestors
\* were registered and in whatever order.
C8_ExactTypeLatestResolver ==
    (Resolved /\ ResolvedCls \in Keys(RegLogAt))
        => resolved.handler = LastFor(RegLogAt, ResolvedCls)

\* the exact type was registered twice with different resolvers, after an
\* ancestor with yet another resolver
C8_Witness ==
    /\ Resolved
    /\ ~resolved.exception.is_class
    /\ \E a, i, j \in 1..Len(RegLogAt) :
           /\ a < i /\ i < j
           /\ RegLogAt[i].key = ResolvedCls /\ RegLogAt[j].key = ResolvedCls
           /\ RegLogAt[a].key \in Mro(ResolvedCls) \ {ResolvedCls}
           /\ RegLogAt[i].handler # RegLogAt[j].handler
           /\ RegLogAt[a].handler # RegLogAt[j].handler
    /\ resolved.handler = LastFor(RegLogAt, ResolvedCls)

\* C9: for an exception whose exact type is not registered, the result is the
\* resolver of the earliest-registered type the exception's type inherits from,
\* also when a later-registered ancestor is closer; with no registered ancestor
\* the result is None.
C9_EarliestRegisteredAncestor ==
    (Resolved /\ ResolvedCls \notin Keys(RegLogAt))
        => resolved.handler =
              IF AncestorEntries(RegLogAt, ResolvedCls) = {} THEN None
              ELSE LastFor(RegLogAt,
                           RegLogAt[FirstAncestorEntry(RegLogAt, ResolvedCls)].key)

\* a farther ancestor registered before a closer one, other resolvers
C9_Witness ==
    /\ Resolved
    /\ ~resolved.exception.is_class
    /\ ResolvedCls \notin Keys(RegLogAt)
    /\ \E i, j \in 1..Len(RegLogAt) :
           /\ i < j
           /\ i = FirstAncestorEntry(RegLogAt, ResolvedCls)
           /\ RegLogAt[j].key \in Mro(ResolvedCls)
           /\ RegLogAt[i].key \in Mro(RegLogAt[j].key) \ {RegLogAt[j].key}
           /\ RegLogAt[i].handler # RegLogAt[j].handler
           /\ resolved.handler = RegLogAt[i].handler

\* C10 as stated: after register(T, r1) and later register(T, r2) the exact
\* lookup for T yields r2 while both entries stay in the ordered registry, so
\* an exception of an unregistered proper subtype of T, with no
\* earlier-registered ancestor, resolves through the first entry (T, r1).
C10_BothEntriesRemain ==
    /\ \A k \in Keys(regLog) :
           get_exception_handler(exception_handlers, Instance(k)) = LastFor(regLog, k)
    /\ Len(exception_handlers) = Len(regLog)
    /\ (Resolved /\ ResolvedCls \notin Keys(RegLogAt)
           /\ AncestorEntries(RegLogAt, ResolvedCls) # {})
          => resolved.handler = RegLogAt[FirstAncestorEntry(RegLogAt, ResolvedCls)].handler

\* C10 amended: after register(T, r1) and later register(T, r2) the registry
\* holds one entry for T, at the position of T's first registration, with
\* resolver r2: the exact lookup for T yields r2, and an exception of an
\* unregistered proper subtype of T, with no earlier-registered ancestor,
\* resolves to r2 as well.
C10_OneEntryPerTypeLatestResolver ==
    /\ Len(exception_handlers) = Len(FirstKeys(regLog))
    /\ \A n \in 1..Len(exception_handlers) :
           /\ exception_handlers[n].key = FirstKeys(regLog)[n]
           /\ exception_handlers[n].handler = LastFor(regLog, FirstKeys(regLog)[n])
    /\ \A k \in Keys(regLog) :
           get_exception_handler(exception_handlers, Instance(k)) = LastFor(regLog, k)
    /\ \A i, j \in 1..Len(RegLogAt) :
           (/\ Resolved
            /\ i < j
            /\ RegLogAt[i].key = RegLogAt[j].key
            /\ RegLogAt[j].handler = LastFor(RegLogAt, RegLogAt[j].key)
            /\ ResolvedCls \notin Keys(RegLogAt)
            /\ i = FirstAncestorEntry(RegLogAt, ResolvedCls))
               => resolved.handler = RegLogAt[j].handler

\* T registered twice with different resolvers, a later type after it, and an
\* unregistered subtype of T resolved
C10_Witness ==
    /\ Resolved
    /\ ~resolved.exception.is_class
    /\ ResolvedCls \notin Keys(RegLogAt)
    /\ \E i, j \in 1..Len(RegLogAt) :
           /\ i < j
           /\ RegLogAt[i].key = RegLogAt[j].key
           /\ RegLogAt[i].handler # RegLogAt[j].handler
           /\ RegLogAt[j].handler = LastFor(RegLogAt, RegLogAt[j].key)
           /\ i = FirstAncestorEntry(RegLogAt, ResolvedCls)
           /\ resolved.handler = RegLogAt[j].handler
    /\ Len(exception_handlers) < Len(regLog)

(***************************************************************************)
(* Error responses of the dispatch.                                        *)
(***************************************************************************)
\* the exception a before-hook or the handler raised in this dispatch
RaisedEvents == Events("raise", "before") \cup Events("raise", "handler")

\* no type the class inherits from (nor the class) was ever registered
NeverRegistered(c) == AncestorEntries(regLog, c) = {}

\* C11: when a before-hook or the verb handler raises an exception for which
\* the registry has no exact or ancestor entry, dispatch returns a response
\* with status 500 whose JSON body is {code: 500, message: str(exception)},
\* without resolver-supplied data.
C11_UnregisteredExceptionIs500 ==
    \A n \in RaisedEvents :
        (Done /\ NeverRegistered(trace[n].exc) /\ ~AfterHookRaised)
            => /\ result.kind = "response"
               /\ result.resp.ctype = "json"
               /\ result.resp.status = 500
               /\ result.resp.code = 500
               /\ result.resp.message = Str(trace[n].exc)
               /\ result.resp.data = None

\* an unregistered application exception was raised while another type had
\* an application resolver
C11_Witness ==
    /\ Done
    /\ Len(regLog) > 1
    /\ \E n \in Events("raise", "handler") :
          /\ trace[n].exc = "AppSubError"
          /\ NeverRegistered("AppSubError")
    /\ result.resp.status = 500
    /\ result.resp.message = "app sub error"

(***************************************************************************)
(* The default verb handlers.                                              *)
(***************************************************************************)
NineVerbs == {"GET", "HEAD", "POST", "PUT", "DELETE", "CONNECT", "OPTIONS", "TRACE", "PATCH"}

NotImplMessages ==
    {"GET Not Impl", "HEAD Not Impl", "POST Not Impl", "PUT Not Impl", "DELETE Not Impl",
     "CONNECT Not Impl", "OPTIONS Not Impl", "TRACE Not Impl", "PATCH Not Impl"}

IsNotImplMessage(str, method) ==
    \E m \in NotImplMessages : str = m /\ m = method \o " Not Impl"

\* C14: for each of GET, HEAD, POST, PUT, DELETE, CONNECT, OPTIONS, TRACE and
\* PATCH an endpoint that does not override the verb's handler answers through
\* the default handler: status 500 and message '<METHOD> Not Impl', not 405,
\* with the before-hooks and after-hooks run around it as for any handler.
C14_DefaultHandlerIs500NotImpl ==
    (Done /\ request.method \in NineVerbs /\ ~request.overridden) =>
        /\ trace # <<>>
        /\ Events("raise", "handler") = {}
        /\ Events("raise", "before") = {} =>
              /\ Cardinality(Events("return", "before")) = request.nBefore
              /\ Cardinality(Events("return", "handler")) = 1
              /\ \A n \in Events("call", "before") : \A m \in Events("call", "handler") : n < m
              /\ \A n \in Events("call", "after") : \A m \in Events("return", "handler") : m < n
              /\ \A k \in AfterHooksDue : Cardinality(EventsOf("call", "after", k)) = 1
              /\ pending.kind = "response"
              /\ pending.resp.status = 500
              /\ pending.resp.code = 500
              /\ IsNotImplMessage(pending.resp.message, request.method)
              /\ pending.resp.data = None
              /\ ~AfterHookRaised => result = pending

\* a PATCH request to an endpoint without method_patch of its own, hooks run
C14_Witness ==
    /\ Done
    /\ request.method = "PATCH"
    /\ ~request.overridden
    /\ Cardinality(Events("return", "before")) = 2
    /\ Cardinality(Events("return", "after")) = 2
    /\ result.kind = "response"
    /\ result.resp.status = 500
    /\ result.resp.message = "PATCH Not Impl"

(***************************************************************************)
(* Failure of the exception handling itself.                               *)
(***************************************************************************)
\* the except clause ended with an exception of its own
HandlingFailed == Events("handle", "resolve") # {} /\ pending.kind = "raise"

\* C18: when building the error response fails inside exception handling (the
\* resolver raises, or its tuple cannot be unpacked into code, error_code,
\* message, data), the after-hooks still run exactly once and the new
\* exception then leaves dispatch; once the handler branch is entered the
\* after-hooks are never skipped.
C18_AfterHooksRunWhenHandlingFails ==
    /\ (Done /\ HandlingFailed) =>
          /\ \A k \in AfterHooksDue : Cardinality(EventsOf("call", "after", k)) = 1
          /\ \A n \in Events("call", "after") : \A m \in Events("handle", "resolve") : m < n
          /\ ~AfterHookRaised =>
                /\ result.kind = "raise"
                /\ result.exc \in {"ValueError", "RuntimeError"}
                /\ Cardinality(Events("return", "after")) = request.nAfter
    /\ (Done /\ HasHandler /\ ~AfterHookRaised) =>
          Cardinality(Events("return", "after")) = request.nAfter

\* a resolver raised, both after-hooks ran, and the resolver's exception left
\* dispatch
C18_Witness ==
    /\ Done
    /\ HandlingFailed
    /\ request.nAfter = 2
    /\ Cardinality(Events("return", "after")) = 2
    /\ result = Raise("RuntimeError")

(***************************************************************************)
(* The registry over time, and class objects as arguments.                 *)
(***************************************************************************)
\* C15: across register and resolve calls the registry is append-only: a type
\* once registered is never removed (nor moved), get_exception_handler leaves
\* the registry unchanged, and the result of resolving a given exception
\* changes only by a register call.
C15_RegistryAppendOnly ==
    [][/\ Len(exception_handlers') >= Len(exception_handlers)
       /\ \A n \in 1..Len(exception_handlers) :
             exception_handlers'[n].key = exception_handlers[n].key
       /\ resolved' # resolved => exception_handlers' = exception_handlers
       /\ (\E e \in ExceptionValues :
              get_exception_handler(exception_handlers', e)
                 # get_exception_handler(exception_handlers, e))
             => /\ Len(regLog') > Len(regLog)
                /\ resolved' = resolved]_vars

\* an exception was resolved, types were registered after that, and resolving
\* it now gives another resolver
C15_Witness ==
    /\ Resolved
    /\ resolved.at < Len(regLog)
    /\ Len(exception_handlers) >= 3
    /\ resolved.handler # None
    /\ get_exception_handler(exception_handlers, resolved.exception) # resolved.handler

\* the same exception type given the other way: the class for an instance, an
\* instance for the class
OtherForm(exception) == [exception EXCEPT !.is_class = ~exception.is_class]

\* C20: for every registry content and exception type C,
\* get_exception_handler(C), the class itself, returns what it returns for an
\* instance of C: the exact match first, otherwise the earliest-registered
\* ancestor, otherwise None.
C20_ClassAndInstanceResolveAlike ==
    /\ (Resolved /\ resolved.at = Len(regLog))
          => resolved.handler
                = get_exception_handler(exception_handlers, OtherForm(resolved.exception))
    /\ (Resolved /\ resolved.exception.is_class) =>
          resolved.handler =
             IF ResolvedCls \in Keys(RegLogAt) THEN LastFor(RegLogAt, ResolvedCls)
             ELSE IF AncestorEntries(RegLogAt, ResolvedCls) = {} THEN None
             ELSE LastFor(RegLogAt, RegLogAt[FirstAncestorEntry(RegLogAt, ResolvedCls)].key)

\* a class object of an unregistered type with two registered ancestors that
\* have different resolvers
C20_Witness ==
    /\ Resolved
    /\ resolved.exception.is_class
    /\ resolved.at = Len(regLog)
    /\ ResolvedCls \notin Keys(regLog)
    /\ \E i, j \in AncestorEntries(regLog, ResolvedCls) :
          /\ i < j
          /\ regLog[i].key # regLog[j].key
          /\ LastFor(regLog, regLog[i].key) # LastFor(regLog, regLog[j].key)
    /\ resolved.handler # None

(***************************************************************************)
(* Body aggregation properties.                                            *)
(***************************************************************************)
\* the sources in merge order: 1 pathParams, 2 jsonBody, 3 queryArgs, 4 files,
\* 5 formFields, 6 x- headers
SourceOrder == 1..Len(handled.imports)

Applicable(i) ==
    CASE i = 2 -> /\ Contains(handled.request.content_type, "application/json")
                  /\ handled.request.json.some
      [] i = 3 -> /\ handled.request.method # "POST"
                  /\ handled.request.args.some
                  /\ DOMAIN handled.request.args.dict # {}
      [] OTHER -> TRUE

\* the applicable sources whose contribution contains the key
Contributors(key) ==
    {i \in SourceOrder : Applicable(i) /\ key \in DOMAIN handled.imports[i]}

LastContributor(key) ==
    CHOOSE i \in Contributors(key) : \A j \in Contributors(key) : j <= i

BodyKeys == UNION {DOMAIN handled.imports[i] : i \in SourceOrder}

XHeaders == {h \in DOMAIN handled.request.headers : Prefix2Lower(h) = "x-"}

\* C13: the aggregated body is the merge of the applicable sources in the order
\* pathParams, jsonBody (JSON content type and non-null JSON only), queryArgs (method
\* not POST and non-empty only), files, formFields, x- headers: its keys are the keys
\* of the applicable sources and each key holds the value of the last applicable
\* source containing it; a POST with JSON content type and jsonBody {id: v} alone,
\* whatever its queryArgs, yields {id: v}.
C13_LastApplicableSourceWins ==
    handled.done =>
        /\ \A i \in SourceOrder : ~Applicable(i) => DOMAIN handled.imports[i] = {}
        /\ handled.request.match_info.some
              => handled.imports[1] = handled.request.match_info.dict
        /\ Applicable(2) => handled.imports[2] = handled.request.json.dict
        /\ Applicable(3) => DOMAIN handled.imports[3] = DOMAIN handled.request.args.dict
        /\ handled.request.files.some
              => DOMAIN handled.imports[4] = DOMAIN handled.request.files.dict
        /\ handled.request.form.some
              => DOMAIN handled.imports[5] = DOMAIN handled.request.form.dict
        /\ DOMAIN handled.imports[6] = XHeaders
        /\ \A h \in XHeaders : handled.imports[6][h] = handled.request.headers[h]
        /\ DOMAIN handled.aggregated = {k \in BodyKeys : Contributors(k) # {}}
        /\ \A k \in DOMAIN handled.aggregated :
              handled.aggregated[k] = handled.imports[LastContributor(k)][k]
        /\ (/\ handled.request.method = "POST"
            /\ Applicable(2)
            /\ DOMAIN handled.request.json.dict = {"id"}
            /\ \A i \in {1, 4, 5, 6} : DOMAIN handled.imports[i] = {})
              => /\ DOMAIN handled.aggregated = {"id"}
                 /\ handled.aggregated["id"] = handled.request.json.dict["id"]

\* a key that three applicable sources contribute with different values, in a POST
\* whose non-empty query arguments do not apply
C13_Witness ==
    /\ handled.done
    /\ handled.request.method = "POST"
    /\ handled.request.args.some
    /\ DOMAIN handled.request.args.dict # {}
    /\ \E k \in BodyKeys :
          /\ Cardinality(Contributors(k)) >= 3
          /\ \A i, j \in Contributors(k) :
                i # j => handled.imports[i][k] # handled.imports[j][k]

(***************************************************************************)
(* Response factory properties.                                            *)
(***************************************************************************)
\* the body synthesized when data is null
SynthesizedBody(resp) ==
    /\ resp.data = None
    /\ resp.code = IF made.error_code # NoCode THEN made.error_code ELSE made.code
    /\ resp.message = IF made.message # None THEN made.message
                                             ELSE HTTPStatusPhrase(made.code)

\* the call needs the standard phrase of a code that has none
NeedsUnknownPhrase ==
    made.data = None /\ made.message = None /\ HTTPStatusPhrase(made.code) = None

\* C16 as stated: every call of make_response_json yields a response with status
\* code, whose body is data verbatim when data is non-null and otherwise
\* {code: errorCode if non-null else code, message: message if non-null else the
\* standard HTTP phrase for code}.
C16_AlwaysAResponse ==
    made.called =>
        /\ made.outcome.kind = "response"
        /\ made.outcome.resp.status = made.code
        /\ made.data # None
              => made.outcome.resp.data = made.data /\ made.outcome.resp.code = NoCode
        /\ made.data = None => SynthesizedBody(made.outcome.resp)

\* C16 amended: as stated, except that a call with null data and null message whose
\* code is not a standard HTTP status raises ValueError and builds no response.
C16_ResponseUnlessUnknownPhrase ==
    made.called =>
        IF NeedsUnknownPhrase
        THEN made.outcome.kind = "raise" /\ made.outcome.exc = "ValueError"
        ELSE /\ made.outcome.kind = "response"
             /\ made.outcome.resp.status = made.code
             /\ made.data # None
                   => /\ made.outcome.resp.data = made.data
                      /\ made.outcome.resp.code = NoCode
             /\ made.data = None => SynthesizedBody(made.outcome.resp)

\* a body synthesized from an error code that differs from the status, with the
\* standard phrase as its message
C16_Witness ==
    /\ made.called
    /\ made.data = None
    /\ made.message = None
    /\ made.error_code # NoCode
    /\ made.error_code # made.code
    /\ made.outcome.kind = "response"
    /\ made.outcome.resp.message = "Conflict"

(***************************************************************************)
(* Scalar collapsing properties.                                           *)
(***************************************************************************)
IsSingleton(value) == value.kind = "list" /\ Len(value.items) = 1

\* output is input with every one-element list replaced by its element
CollapsedFrom(input, output) ==
    /\ DOMAIN output = DOMAIN input
    /\ \A key \in DOMAIN input :
          /\ IsSingleton(input[key])
                => output[key] = [kind |-> "str", items |-> <<input[key].items[1]>>]
          /\ ~IsSingleton(input[key]) => output[key] = input[key]

FormImported == handled.request.form.some /\ DOMAIN handled.request.form.dict # {}

\* C17: scalar collapsing keeps every key, replaces a list of length exactly 1 by its
\* element and leaves every other value unchanged; the imported query arguments are
\* always the collapsed request arguments, and the imported form fields are the
\* collapsed form fields when the content type contains multipart/form-data and the
\* form fields verbatim otherwise.
C17_ScalarCollapsing ==
    handled.done =>
        /\ Applicable(3) => CollapsedFrom(handled.request.args.dict, handled.imports[3])
        /\ FormImported =>
              IF Contains(handled.request.content_type, "multipart/form-data")
              THEN CollapsedFrom(handled.request.form.dict, handled.imports[5])
              ELSE handled.imports[5] = handled.request.form.dict

\* one-element lists in the query arguments and in the form fields of a request that
\* is not multipart: the former collapsed, the latter kept as a list
C17_Witness ==
    /\ handled.done
    /\ Applicable(3)
    /\ FormImported
    /\ ~Contains(handled.request.content_type, "multipart/form-data")
    /\ \E key \in DOMAIN handled.request.args.dict :
          /\ IsSingleton(handled.request.args.dict[key])
          /\ handled.imports[3][key].kind = "str"
    /\ \E key \in DOMAIN handled.request.form.dict :
          /\ IsSingleton(handled.request.form.dict[key])
          /\ handled.imports[5][key].kind = "list"

(***************************************************************************)
(* The reserved key of the body.                                           *)
(***************************************************************************)
\* C19: the body handle passes on holds the caller's auth argument (possibly None)
\* under 'auth', even when a source of the request contributes a key 'auth', and is
\* the aggregated body in every other key.
C19_AuthKeyHoldsCallerAuth ==
    handled.done =>
        /\ DOMAIN handled.body = DOMAIN handled.aggregated \cup {"auth"}
        /\ handled.body["auth"] = handled.auth
        /\ \A key \in DOMAIN handled.body \ {"auth"} :
              handled.body[key] = handled.aggregated[key]

\* path parameter, query argument, file field and form field all named 'auth', and a
\* caller that passes no auth
C19_Witness ==
    /\ handled.done
    /\ handled.auth.kind = "None"
    /\ \A i \in {1, 3, 4, 5} : "auth" \in DOMAIN handled.imports[i]
    /\ "auth" \in DOMAIN handled.aggregated
    /\ handled.aggregated["auth"] # handled.auth
    /\ handled.body["auth"] = handled.auth
====
